---- MODULE Spec2Model ----
(***************************************************************************)
(* Grid-packing layout engine of seanaye/personal-site.                    *)
(*                                                                         *)
(* Spec models one PhotoGrid::new_with_mapper call step by step: the       *)
(* add_all loop of the bin-packer, the GridVisitor iteration with the      *)
(* consuming mapper, and grow_non_intersecting on the returned grid.       *)
(* SpecR models ResponsivePhotoGrid: new builds one PhotoGrid per column    *)
(* count, then grow_to_width, grids, contents_at and contents_len are      *)
(* called.  SpecS models the sizing rule of build_photo_grid: the          *)
(* "aspect-ratio" text is parsed, the photo's ratio is taken from it as    *)
(* read or reduced by the gcd, rounded to a RoundedAspectRatio<SIZE> and   *)
(* clamped to a column count.                                              *)
(* Indices are 0-based as in the source; Vec<T> is a sequence whose        *)
(* element i is seq[i + 1].                                                *)
(***************************************************************************)
EXTENDS Integers, Sequences, FiniteSets, TLC

\* ------------------------------------------------------------------ bounds
MaxWidth == 3
MaxHeight == 2
MaxItems == 4
MaxRunItems == 5
MaxPhotos == 3
MaxColumns == 2
MaxRowSpan == 1
MaxBreakpoints == 2
MaxTextLen == 4
MaxSize == 2
MaxClampWidth == 3
MaxCells == 4
MaxId == 1
MaxPending == 2
MaxApplied == 3

\* ------------------------------------------------------------- primitives
\* Option::<usize>::None in a cell or in nullable_vec; ordinals are >= 0.
NoneVal == -1

Max(S) == CHOOSE m \in S : \A o \in S : o <= m
Min(S) == CHOOSE m \in S : \A o \in S : m <= o

\* Vec::get(idx).is_some()
InRange(contents, idx) == idx >= 0 /\ idx < Len(contents)
\* the element Vec::get(idx) returns when it is Some
At(contents, idx) == contents[idx + 1]

Dim(w, h) == [width |-> w, height |-> h]
Shapes(ws, hs) == {Dim(w, h) : w \in ws, h \in hs}

\* Grid::to_dimension
to_dimension(W, idx) == [x |-> idx % W, y |-> idx \div W]
\* Grid::to_index
to_index(W, coord) == coord.y * W + coord.x

\* Grid::dimensions_iter: the indices of the rectangle in iteration order
dimensions_iter(W, dimension, offset) ==
    [k \in 1..(dimension.width * dimension.height) |->
        to_index(W, [x |-> (k - 1) % dimension.width,
                     y |-> (k - 1) \div dimension.width]) + offset]

\* Coord::iter_area
iter_area(top_left, bottom_right) ==
    {[x |-> x, y |-> y] : x \in top_left.x..bottom_right.x,
                          y \in top_left.y..bottom_right.y}

\* ---------------------------------------------------------- occupancy grid
\* Grid::available
available(contents) ==
    {idx \in 0..(Len(contents) - 1) : At(contents, idx) = NoneVal}

\* extend_to growing the contents up to the index, not to the end of its row
extend_to_index_only(W, contents, idx) ==
    LET cur_len == Len(contents)
        n == IF idx + 1 > cur_len THEN idx + 1 - cur_len ELSE 0
    IN  contents \o [i \in 1..n |-> NoneVal]

\* extend_to building the rows anew, every cell empty
extend_to_resetting(W, contents, idx) ==
    LET end_coord == (to_dimension(W, idx).y + 1) * W
    IN  [i \in 1..Max({end_coord, Len(contents)}) |-> NoneVal]

\* Grid::extend_to
extend_to(W, contents, idx) ==
    LET y == to_dimension(W, idx).y
        end_coord == (y + 1) * W
        cur_len == Len(contents)
        n == IF end_coord > cur_len THEN end_coord - cur_len ELSE 0
    IN  contents \o [i \in 1..n |-> NoneVal]

\* does_fit_at with the right-edge test off by one (>= for >)
does_fit_at_edge_off_by_one(W, contents, idx, dimension) ==
    IF to_dimension(W, idx).x + dimension.width >= W
    THEN FALSE
    ELSE LET it == dimensions_iter(W, dimension, idx)
         IN  \A k \in DOMAIN it :
                \/ ~InRange(contents, it[k])
                \/ At(contents, it[k]) = NoneVal

\* does_fit_at with the right-edge test only, occupied cells not looked at
does_fit_at_edge_only(W, contents, idx, dimension) ==
    to_dimension(W, idx).x + dimension.width <= W

\* Grid::does_fit_at
does_fit_at(W, contents, idx, dimension) ==
    IF to_dimension(W, idx).x + dimension.width > W
    THEN FALSE
    ELSE LET it == dimensions_iter(W, dimension, idx)
         IN  \A k \in DOMAIN it :
                \/ ~InRange(contents, it[k])
                \/ At(contents, it[k]) = NoneVal

\* insert_at returning Ok(()) without writing when the rectangle has no cell
insert_at_empty_is_ok(W, contents, index, id, dimension) ==
    LET it == dimensions_iter(W, dimension, index)
        ext == IF Len(it) = 0 THEN contents
               ELSE extend_to(W, contents, it[Len(it)])
    IN  [ok |-> TRUE,
         contents |->
            [i \in 1..Len(ext) |->
                IF \E k \in DOMAIN it : it[k] = i - 1 THEN id ELSE ext[i]]]

\* Grid::insert_at: Err(()) when the rectangle has no cell
insert_at(W, contents, index, id, dimension) ==
    LET it == dimensions_iter(W, dimension, index)
    IN  IF Len(it) = 0
        THEN [ok |-> FALSE, contents |-> contents]
        ELSE LET ext == extend_to(W, contents, it[Len(it)])
             IN  [ok |-> TRUE,
                  contents |->
                    [i \in 1..Len(ext) |->
                        IF \E k \in DOMAIN it : it[k] = i - 1
                        THEN id ELSE ext[i]]]

\* the `find` of Grid::add_all; NoneVal when nothing fits
first_fit(W, contents, el) ==
    LET fits == {e \in available(contents) : does_fit_at(W, contents, e, el)}
    IN  IF fits = {} THEN NoneVal ELSE Min(fits)

\* the closure body of Grid::add_all for item (idx, el)
add_one(W, contents, idx, el) ==
    LET fit == first_fit(W, contents, el)
    IN  IF fit # NoneVal
        THEN [at |-> fit, res |-> insert_at(W, contents, fit, idx, el)]
        ELSE LET len == Len(contents)
                 ext == extend_to(W, contents, len)
             IN  [at |-> len, res |-> insert_at(W, ext, len, idx, el)]

\* ---------------------------------------------------- region reconstructor
\* touching whose rightward scan is not stopped at the grid width
touching_unbounded_right(W, contents, top_left) ==
    LET val == At(contents, to_index(W, top_left))
        same(coord) == /\ InRange(contents, to_index(W, coord))
                       /\ At(contents, to_index(W, coord)) = val
        right_extent ==
            {x \in top_left.x..Len(contents) :
                \A x2 \in top_left.x..x : same([x |-> x2, y |-> top_left.y])}
        bottom_extent ==
            {y \in top_left.y..(Len(contents) \div W) :
                \A y2 \in top_left.y..y : same([x |-> top_left.x, y |-> y2])}
    IN  IF right_extent # {} /\ bottom_extent # {}
        THEN [x |-> Max(right_extent), y |-> Max(bottom_extent)]
        ELSE top_left

\* Grid::touching
touching(W, contents, top_left) ==
    LET val == At(contents, to_index(W, top_left))
        same(coord) == /\ InRange(contents, to_index(W, coord))
                       /\ At(contents, to_index(W, coord)) = val
        right_extent ==
            {x \in top_left.x..(W - 1) :
                \A x2 \in top_left.x..x : same([x |-> x2, y |-> top_left.y])}
        bottom_extent ==
            {y \in top_left.y..(Len(contents) \div W) :
                \A y2 \in top_left.y..y : same([x |-> top_left.x, y |-> y2])}
    IN  IF right_extent # {} /\ bottom_extent # {}
        THEN [x |-> Max(right_extent), y |-> Max(bottom_extent)]
        ELSE top_left

\* next leaving the cursor where it is after marking a region
RECURSIVE next_cursor_kept(_, _, _, _)
next_cursor_kept(W, contents, seen_, cur_) ==
    IF cur_ \in seen_
    THEN next_cursor_kept(W, contents, seen_, cur_ + 1)
    ELSE IF ~InRange(contents, cur_)
    THEN [seen |-> seen_, cur |-> cur_, yield |-> <<>>]
    ELSE LET this == At(contents, cur_)
             coord == to_dimension(W, cur_)
             bottom_right == touching(W, contents, coord)
             seen2 == seen_ \cup
                        {to_index(W, c) : c \in iter_area(coord, bottom_right)}
             dimension == Dim(1 + bottom_right.x - coord.x,
                              1 + bottom_right.y - coord.y)
         IN  IF this # NoneVal
             THEN [seen |-> seen2, cur |-> cur_,
                   yield |-> <<[data |-> this, size |-> dimension,
                                origin |-> coord]>>]
             ELSE next_cursor_kept(W, contents, seen2, cur_)

\* GridVisitor::next: the visitor after the call and the item it returned
\* (yield is <<>> for None, <<placement>> for Some)
RECURSIVE next(_, _, _, _)
next(W, contents, seen_, cur_) ==
    IF cur_ \in seen_
    THEN next(W, contents, seen_, cur_ + 1)
    ELSE IF ~InRange(contents, cur_)
    THEN [seen |-> seen_, cur |-> cur_, yield |-> <<>>]
    ELSE LET this == At(contents, cur_)
             coord == to_dimension(W, cur_)
             bottom_right == touching(W, contents, coord)
             seen2 == seen_ \cup
                        {to_index(W, c) : c \in iter_area(coord, bottom_right)}
             dimension == Dim(1 + bottom_right.x - coord.x,
                              1 + bottom_right.y - coord.y)
             cur2 == cur_ + dimension.width
         IN  IF this # NoneVal
             THEN [seen |-> seen2, cur |-> cur2,
                   yield |-> <<[data |-> this, size |-> dimension,
                                origin |-> coord]>>]
             ELSE next(W, contents, seen2, cur2)

\* Grid::into_iter followed by running the iterator to its end
RECURSIVE run_visitor(_, _, _, _)
run_visitor(W, contents, seen_, cur_) ==
    LET r == next(W, contents, seen_, cur_)
    IN  IF r.yield = <<>> THEN <<>>
        ELSE r.yield \o run_visitor(W, contents, r.seen, r.cur)

into_iter_all(W, contents) == run_visitor(W, contents, {}, 0)

\* the mapper copying the item out instead of taking it
take_item_copy(vec, idx) ==
    [ok |-> TRUE, value |-> idx, vec |-> vec]

\* the mapper reading the slot without leaving None behind
take_item_leave_in_place(vec, idx) ==
    [ok |-> vec[idx + 1] # NoneVal, value |-> vec[idx + 1], vec |-> vec]

\* the mapper of new_with_mapper: std::mem::take(item).unwrap()
take_item(vec, idx) ==
    [ok |-> vec[idx + 1] # NoneVal,
     value |-> vec[idx + 1],
     vec |-> [vec EXCEPT ![idx + 1] = NoneVal]]

\* ------------------------------------------------------------ single grid
\* GridContent::height_range
height_range(c) == [start |-> c.origin.y, end |-> c.origin.y + c.size.height]

\* does_intersect counting ranges that merely touch
does_intersect_closed(a, b) == a.start <= b.end /\ b.start <= a.end

\* Intersect for Range
does_intersect(a, b) == a.start < b.end /\ b.start < a.end

\* the filter looking at the placements to the left instead of the right
to_grow_left(grid_) ==
    {i \in DOMAIN grid_ :
        ~\E j \in DOMAIN grid_ :
            /\ grid_[j].origin.x < grid_[i].origin.x
            /\ j # i
            /\ does_intersect(height_range(grid_[j]), height_range(grid_[i]))}

\* the filter of grow_non_intersecting (1-based positions in the list)
to_grow(grid_) ==
    {i \in DOMAIN grid_ :
        ~\E j \in DOMAIN grid_ :
            /\ grid_[j].origin.x > grid_[i].origin.x
            /\ j # i
            /\ does_intersect(height_range(grid_[j]), height_range(grid_[i]))}

\* grow_non_intersecting stopping one column short of the right edge
grow_one_short(grid_, W) ==
    [i \in DOMAIN grid_ |->
        IF i \in to_grow(grid_)
        THEN [grid_[i] EXCEPT !.size.width = W - grid_[i].origin.x - 1]
        ELSE grid_[i]]

\* grow_non_intersecting adding the columns right of the origin to the
\* width instead of setting the width
grow_adding_columns(grid_, W) ==
    [i \in DOMAIN grid_ |->
        IF i \in to_grow(grid_)
        THEN [grid_[i] EXCEPT
                !.size.width = grid_[i].size.width + (W - grid_[i].origin.x - 1)]
        ELSE grid_[i]]

\* PhotoGrid::grow_non_intersecting
grow_non_intersecting(grid_, W) ==
    [i \in DOMAIN grid_ |->
        IF i \in to_grow(grid_)
        THEN [grid_[i] EXCEPT !.size.width = W - grid_[i].origin.x]
        ELSE grid_[i]]

\* Grid::add_all over the items from ordinal idx on; ok is FALSE when an
\* insert_at fails (the expect panics); the grid then keeps the row the
\* fallback branch added before that insert_at
RECURSIVE add_all(_, _, _, _)
add_all(W, contents, items, idx) ==
    IF idx >= Len(items)
    THEN [ok |-> TRUE, contents |-> contents]
    ELSE LET r == add_one(W, contents, idx, items[idx + 1])
         IN  IF r.res.ok
             THEN add_all(W, r.res.contents, items, idx + 1)
             ELSE [ok |-> FALSE, contents |-> r.res.contents]

\* the collect of new_with_mapper: every Placement of `out` from position k
\* on gets its item by take_item; ok is FALSE when an item is taken twice
RECURSIVE collect_mapped(_, _, _)
collect_mapped(out, vec, k) ==
    IF k > Len(out)
    THEN [ok |-> TRUE, grid |-> <<>>]
    ELSE LET t == take_item(vec, out[k].data)
         IN  IF ~t.ok
             THEN [ok |-> FALSE, grid |-> <<>>]
             ELSE LET rest == collect_mapped(out, t.vec, k + 1)
                  IN  [ok |-> rest.ok,
                       grid |-> <<[out[k] EXCEPT !.data = t.value]>>
                                    \o rest.grid]

\* PhotoGrid::new_with_mapper(photos, width, cb); item_sizes[i] is cb of
\* photos[i], and the photos are the identities 0..N-1
new_with_mapper(photos, W, item_sizes) ==
    LET packed == add_all(W, <<>>, item_sizes, 0)
    IN  IF ~packed.ok
        THEN [ok |-> FALSE, grid |-> <<>>, width |-> W]
        ELSE LET c == collect_mapped(into_iter_all(W, packed.contents),
                                     photos, 1)
             IN  [ok |-> c.ok, grid |-> c.grid, width |-> W]

\* ---------------------------------------------------------- responsive grid
\* an opaque item of the backing array
Photo(i) == <<"photo", i>>

\* ResponsivePhotoGrid::contents_at: one (item, Placement) pair for every
\* breakpoint from position k on whose list has a position n
RECURSIVE contents_at(_, _, _, _)
contents_at(grids_, data_, n, k) ==
    IF k > Len(grids_)
    THEN <<>>
    ELSE LET g == grids_[k].grid
             rest == contents_at(grids_, data_, n, k + 1)
         IN  IF InRange(g, n)
             THEN <<[item |-> data_[At(g, n).data + 1],
                     placement |-> At(g, n)]>> \o rest
             ELSE rest

\* ResponsivePhotoGrid::contents_len
contents_len(grids_) == IF Len(grids_) = 0 THEN 0 ELSE Len(grids_[1].grid)

\* ResponsivePhotoGrid::grids: every breakpoint with the ordinals replaced
\* by references to the items of the backing array
grids_view(grids_, data_) ==
    [k \in DOMAIN grids_ |->
        [grid |-> [i \in DOMAIN grids_[k].grid |->
                    [grids_[k].grid[i] EXCEPT
                        !.data = data_[grids_[k].grid[i].data + 1]]],
         width |-> grids_[k].width]]

\* ResponsivePhotoGrid::grow_to_width
grow_to_width(grids_) ==
    [k \in DOMAIN grids_ |->
        [grid |-> grow_non_intersecting(grids_[k].grid, grids_[k].width),
         width |-> grids_[k].width]]

\* -------------------------------------------------- aspect ratio and sizing
\* A text is a sequence of one-character strings.
\* char::to_digit(10); NoneVal for a character that is no decimal digit
to_digit(c) ==
    CASE c = "0" -> 0 [] c = "1" -> 1 [] c = "2" -> 2 [] c = "3" -> 3
      [] c = "4" -> 4 [] c = "5" -> 5 [] c = "6" -> 6 [] c = "7" -> 7
      [] c = "8" -> 8 [] c = "9" -> 9 [] OTHER -> NoneVal

\* the decimal digits of usize::MAX on a 64-bit target, 18446744073709551615
UsizeMaxDigits == <<1, 8, 4, 4, 6, 7, 4, 4, 0, 7, 3, 7, 0, 9, 5, 5, 1, 6, 1, 5>>

\* str::split(':') collected: the pieces between the colons
RECURSIVE split(_)
split(s) ==
    IF \A i \in DOMAIN s : s[i] # ":"
    THEN <<s>>
    ELSE LET k == Min({i \in DOMAIN s : s[i] = ":"})
         IN  <<SubSeq(s, 1, k - 1)>> \o split(SubSeq(s, k + 1, Len(s)))

\* the digit values of a text of digits without its leading zeros
RECURSIVE significant(_)
significant(ds) ==
    IF Len(ds) = 0 \/ to_digit(ds[1]) # 0
    THEN [i \in DOMAIN ds |-> to_digit(ds[i])]
    ELSE significant(Tail(ds))

\* a sequence of digit values denotes a number above usize::MAX
above_usize_max(sig) ==
    \/ Len(sig) > Len(UsizeMaxDigits)
    \/ /\ Len(sig) = Len(UsizeMaxDigits)
       /\ \E i \in DOMAIN sig :
            /\ sig[i] > UsizeMaxDigits[i]
            /\ \A j \in 1..(i - 1) : sig[j] = UsizeMaxDigits[j]

\* the number a text of digits denotes
RECURSIVE digits_value(_, _)
digits_value(ds, acc) ==
    IF Len(ds) = 0 THEN acc
    ELSE digits_value(Tail(ds), acc * 10 + to_digit(ds[1]))

\* str::parse::<usize>: usize::from_str, an optional '+' and decimal digits
\* accumulated with checked arithmetic; the first offending position decides
\* the kind of the error
parse_usize(src) ==
    IF Len(src) = 0
    THEN [ok |-> FALSE, kind |-> "Empty", value |-> 0]
    ELSE IF src = <<"+">> \/ src = <<"-">>
    THEN [ok |-> FALSE, kind |-> "InvalidDigit", value |-> 0]
    ELSE LET digits == IF src[1] = "+" THEN Tail(src) ELSE src
             bad == {i \in DOMAIN digits : to_digit(digits[i]) = NoneVal}
             first_bad == IF bad = {} THEN Len(digits) + 1 ELSE Min(bad)
             over == {i \in 1..(first_bad - 1) :
                        above_usize_max(significant(SubSeq(digits, 1, i)))}
         IN  IF over # {}
             THEN [ok |-> FALSE, kind |-> "PosOverflow", value |-> 0]
             ELSE IF bad # {}
             THEN [ok |-> FALSE, kind |-> "InvalidDigit", value |-> 0]
             ELSE [ok |-> TRUE, kind |-> "none",
                   value |-> digits_value(digits, 0)]

\* Result<AspectRatio, ParseAspectRatioError>: ratio is <<>> on Err
ParseErr(err, kind) ==
    [ok |-> FALSE, err |-> err, kind |-> kind, ratio |-> <<>>]
ParseOk(a, b) ==
    [ok |-> TRUE, err |-> "none", kind |-> "none",
     ratio |-> <<[width |-> a, height |-> b]>>]

\* from_str taking the first two pieces and ignoring any further one
from_str_ignoring_rest(s) ==
    LET pieces == split(s)
    IN  IF Len(pieces) < 2
        THEN ParseErr("Separator", "none")
        ELSE LET a == parse_usize(pieces[1])
                 b == parse_usize(pieces[2])
             IN  IF ~a.ok THEN ParseErr("ParseInt", a.kind)
                 ELSE IF ~b.ok THEN ParseErr("ParseInt", b.kind)
                 ELSE ParseOk(a.value, b.value)

\* <AspectRatio as FromStr>::from_str
from_str(s) ==
    LET pieces == split(s)
    IN  IF Len(pieces) < 2
        THEN ParseErr("Separator", "none")
        ELSE IF Len(pieces) > 2
        THEN ParseErr("Separator", "none")
        ELSE LET a == parse_usize(pieces[1])
                 b == parse_usize(pieces[2])
             IN  IF ~a.ok THEN ParseErr("ParseInt", a.kind)
                 ELSE IF ~b.ok THEN ParseErr("ParseInt", b.kind)
                 ELSE ParseOk(a.value, b.value)

\* num::integer::gcd on usize; gcd(0, 0) is 0
RECURSIVE gcd(_, _)
gcd(a, b) == IF b = 0 THEN a ELSE gcd(b, a % b)

\* Dimension::aspect_ratio: both extents divided by their gcd; ok is FALSE
\* when the gcd is 0 and the division panics
dimension_aspect_ratio(d) ==
    LET g == gcd(d.width, d.height)
    IN  IF g = 0
        THEN [ok |-> FALSE, ratio |-> <<>>]
        ELSE [ok |-> TRUE,
              ratio |-> <<[width |-> d.width \div g,
                           height |-> d.height \div g]>>]

\* <Orientation as FromAspectRatio>::from_aspect_ratio
orientation_from_aspect_ratio(ratio) ==
    IF ratio.width <= ratio.height THEN "Portrait" ELSE "Landscape"

\* from_aspect_ratio rounding up only when the remainder is past half of the
\* divisor
rounded_from_aspect_ratio_at_half(SIZE, ratio) ==
    LET orientation == orientation_from_aspect_ratio(ratio)
        min == IF orientation = "Portrait" THEN ratio.width ELSE ratio.height
        max == IF orientation = "Portrait" THEN ratio.height ELSE ratio.width
        divisor == min \div SIZE
    IN  IF divisor = 0
        THEN [ok |-> FALSE, SIZE |-> SIZE, orientation |-> orientation,
              long_edge |-> 0]
        ELSE [ok |-> TRUE, SIZE |-> SIZE, orientation |-> orientation,
              long_edge |-> IF 2 * (max % divisor) > divisor
                            THEN (max \div divisor) + 1
                            ELSE max \div divisor]

\* from_aspect_ratio with the divisor kept at 1 or more, so it never panics
rounded_from_aspect_ratio_divisor_floored(SIZE, ratio) ==
    LET orientation == orientation_from_aspect_ratio(ratio)
        min == IF orientation = "Portrait" THEN ratio.width ELSE ratio.height
        max == IF orientation = "Portrait" THEN ratio.height ELSE ratio.width
        divisor == Max({1, min \div SIZE})
    IN  [ok |-> TRUE, SIZE |-> SIZE, orientation |-> orientation,
         long_edge |-> IF max % divisor > 0
                       THEN (max \div divisor) + 1
                       ELSE max \div divisor]

\* <RoundedAspectRatio<SIZE> as FromAspectRatio>::from_aspect_ratio; ok is
\* FALSE when the division by divisor = 0 panics
rounded_from_aspect_ratio(SIZE, ratio) ==
    LET orientation == orientation_from_aspect_ratio(ratio)
        min == IF orientation = "Portrait" THEN ratio.width ELSE ratio.height
        max == IF orientation = "Portrait" THEN ratio.height ELSE ratio.width
        divisor == min \div SIZE
    IN  IF divisor = 0
        THEN [ok |-> FALSE, SIZE |-> SIZE, orientation |-> orientation,
              long_edge |-> 0]
        ELSE [ok |-> TRUE, SIZE |-> SIZE, orientation |-> orientation,
              long_edge |-> IF max % divisor > 0
                            THEN (max \div divisor) + 1
                            ELSE max \div divisor]

\* <RoundedAspectRatio<SIZE> as Size>::width
rounded_width(r) ==
    IF r.orientation = "Portrait" THEN r.SIZE ELSE r.long_edge

\* <RoundedAspectRatio<SIZE> as Size>::height
rounded_height(r) ==
    IF r.orientation = "Portrait" THEN r.long_edge ELSE r.SIZE

\* clamp_width_to scaling the height without the floor of one cell
clamp_width_to_unfloored(w, h, max_width) ==
    IF w <= max_width THEN Dim(w, h)
    ELSE Dim(max_width, (h * max_width) \div w)

\* Size::clamp_width_to(max_width) on a size of width w and height h: the
\* size unchanged when it fits, otherwise the width max_width and the height
\* scaled by max_width / w, at least 1
clamp_width_to(w, h, max_width) ==
    IF w <= max_width THEN Dim(w, h)
    ELSE Dim(max_width, Max({1, (h * max_width) \div w}))

\* ------------------------------------------------------------------ inputs
\* item lists of any positive extents, also wider than the grid
GeneralInputs ==
    {[width |-> W, shapes |-> Shapes(1..(W + 1), 1..MaxHeight),
      limit |-> MaxItems] : W \in 1..MaxWidth}

\* the layouts of tests::it_should_layout_a/b/c, it_should_iterate_properly
\* and another_test: NormalizedAspectRatio with long_edge 2 at width 4
LayoutTestInputs ==
    {[width |-> 4, shapes |-> {Dim(1, 2), Dim(2, 1)}, limit |-> MaxRunItems]}

\* a six-column grid with items no wider than the grid
SixColumnInputs ==
    {[width |-> 6,
      shapes |-> {Dim(5, 1), Dim(3, 2), Dim(1, 2), Dim(4, 1), Dim(2, 3)},
      limit |-> MaxRunItems]}

\* item lists in which the sizing rule may return a width or height of 0
ZeroExtentInputs ==
    {[width |-> 2, shapes |-> Shapes(0..2, 0..MaxHeight), limit |-> MaxItems]}

Inputs ==
    GeneralInputs \cup LayoutTestInputs \cup SixColumnInputs
        \cup ZeroExtentInputs

\* ------------------------------------------------------------------- state
VARIABLES
    width,        \* Grid.width / PhotoGrid.width
    source,       \* what the item iterator may yield: [shapes, limit]
    sizes,        \* the Size of every item add_all has consumed
    contents,     \* Grid.contents
    placed,       \* history: the index each item was inserted at
    pc,           \* "add_all", "collect", "built", "grown", "panic"
    seen,         \* GridVisitor.seen, as the set of its elements
    cur,          \* GridVisitor.cur
    nullable_vec, \* nullable_vec of new_with_mapper
    grid,         \* PhotoGrid.grid
    before,       \* history: PhotoGrid.grid when grow_non_intersecting began
    data,         \* ResponsivePhotoGrid.data
    grids,        \* ResponsivePhotoGrid.grids
    sized,        \* the sizing rule cb as evaluated so far, per column count
    rpc,          \* "new", "ready", "grown", "panic"; "none" under Spec
    result,       \* what the last read operation returned
    text,         \* the text handed to AspectRatio::from_str
    parsed,       \* the Result of from_str
    aspect_ratio, \* PhotoLayoutData.aspect_ratio, <<>> while there is none
    rounded,      \* the RoundedAspectRatio<SIZE> made from aspect_ratio
    clamped,      \* max_width and the size clamp_width_to returned
    spc,          \* "text", "parsed", "ratio", "rounded", "clamped", "error",
                  \* "gcd_panic", "panic"
    prev,         \* history: Grid.contents before the last Grid method call
    op,           \* history: the last Grid method call and its arguments
    events,       \* EventState.events
    cancel,       \* EventState.cancel
    applied,      \* the events applied to the liquid grid and the palette
    ret,          \* what the last compute_events returned
    eop,          \* history: the last EventState / manager call
    pending,      \* history: EventState.events before that call
    cancelled,    \* history: EventState::cancel has been called
    canvas        \* where the header's canvas is: "requested", "built",
                  \* "running", "erred", "stopped"

gridvars == <<width, source, sizes, contents, placed, pc, seen, cur,
              nullable_vec, grid, before>>
respvars == <<data, grids, sized, rpc, result>>
sizevars == <<text, parsed, aspect_ratio, rounded, clamped, spc>>
primvars == <<prev, op>>
eventvars == <<events, cancel, applied, ret, eop, pending, cancelled,
               canvas>>
vars == <<gridvars, respvars, sizevars, primvars, eventvars>>

NoResult == [op |-> "none", n |-> 0, entries |-> <<>>, len |-> 0]

\* nothing parsed, rounded or clamped yet
NoParse == [ok |-> FALSE, err |-> "none", kind |-> "none", ratio |-> <<>>]
NoRounded == [ok |-> FALSE, SIZE |-> 0, orientation |-> "none", long_edge |-> 0]
NoClamped == [max_width |-> 0, size |-> Dim(0, 0)]

\* the sizing variables while a grid specification runs
SizingIdle ==
    /\ text = <<>>
    /\ parsed = NoParse
    /\ aspect_ratio = <<>>
    /\ rounded = NoRounded
    /\ clamped = NoClamped
    /\ spc = "none"

\* no Grid method called directly
NoOp == [name |-> "none", idx |-> 0, ok |-> TRUE]
PrimIdle == prev = <<>> /\ op = NoOp

\* no canvas and no EventState
EventIdle ==
    /\ events = <<>>
    /\ cancel = FALSE
    /\ applied = <<>>
    /\ ret = "none"
    /\ eop = "none"
    /\ pending = <<>>
    /\ cancelled = FALSE
    /\ canvas = "none"

\* Grid::new(width) inside new_with_mapper
Init ==
    /\ \E inp \in Inputs :
        /\ width = inp.width
        /\ source = [shapes |-> inp.shapes, limit |-> inp.limit]
    /\ sizes = <<>>
    /\ contents = <<>>
    /\ placed = <<>>
    /\ pc = "add_all"
    /\ seen = {}
    /\ cur = 0
    /\ nullable_vec = <<>>
    /\ grid = <<>>
    /\ before = <<>>
    /\ data = <<>>
    /\ grids = <<>>
    /\ sized = <<>>
    /\ rpc = "none"
    /\ result = NoResult
    /\ SizingIdle
    /\ PrimIdle
    /\ EventIdle

\* one iteration of the for_each of Grid::add_all
AddItem ==
    /\ pc = "add_all"
    /\ Len(sizes) < source.limit
    /\ \E el \in source.shapes :
        LET r == add_one(width, contents, Len(sizes), el)
        IN  /\ sizes' = Append(sizes, el)
            /\ contents' = r.res.contents
            /\ placed' = Append(placed, r.at)
            /\ pc' = IF r.res.ok THEN "add_all" ELSE "panic"
    /\ UNCHANGED <<width, source, seen, cur, nullable_vec, grid, before>>
    /\ UNCHANGED respvars
    /\ UNCHANGED sizevars
    /\ UNCHANGED primvars
    /\ UNCHANGED eventvars

\* add_all returns; nullable_vec is built and the grid turned into a visitor
IntoIter ==
    /\ pc = "add_all"
    /\ pc' = "collect"
    /\ nullable_vec' = [i \in 1..Len(sizes) |-> i - 1]
    /\ seen' = {}
    /\ cur' = 0
    /\ grid' = <<>>
    /\ UNCHANGED <<width, source, sizes, contents, placed, before>>
    /\ UNCHANGED respvars
    /\ UNCHANGED sizevars
    /\ UNCHANGED primvars
    /\ UNCHANGED eventvars

\* the collect putting each Placement in front of the earlier ones
VisitNextPrepending ==
    /\ pc = "collect"
    /\ LET r == next(width, contents, seen, cur)
       IN  /\ seen' = r.seen
           /\ cur' = r.cur
           /\ IF r.yield = <<>>
              THEN /\ pc' = "built"
                   /\ UNCHANGED <<nullable_vec, grid>>
              ELSE LET c == r.yield[1]
                       t == take_item(nullable_vec, c.data)
                   IN  IF t.ok
                       THEN /\ pc' = "collect"
                            /\ nullable_vec' = t.vec
                            /\ grid' = <<[c EXCEPT !.data = t.value]>> \o grid
                       ELSE /\ pc' = "panic"
                            /\ UNCHANGED <<nullable_vec, grid>>
    /\ UNCHANGED <<width, source, sizes, contents, placed, before>>
    /\ UNCHANGED respvars
    /\ UNCHANGED sizevars
    /\ UNCHANGED primvars
    /\ UNCHANGED eventvars

\* one GridVisitor::next call of the collect, with the consuming map
VisitNext ==
    /\ pc = "collect"
    /\ LET r == next(width, contents, seen, cur)
       IN  /\ seen' = r.seen
           /\ cur' = r.cur
           /\ IF r.yield = <<>>
              THEN /\ pc' = "built"
                   /\ UNCHANGED <<nullable_vec, grid>>
              ELSE LET c == r.yield[1]
                       t == take_item(nullable_vec, c.data)
                   IN  IF t.ok
                       THEN /\ pc' = "collect"
                            /\ nullable_vec' = t.vec
                            /\ grid' = Append(grid, [c EXCEPT !.data = t.value])
                       ELSE /\ pc' = "panic"
                            /\ UNCHANGED <<nullable_vec, grid>>
    /\ UNCHANGED <<width, source, sizes, contents, placed, before>>
    /\ UNCHANGED respvars
    /\ UNCHANGED sizevars
    /\ UNCHANGED primvars
    /\ UNCHANGED eventvars

\* PhotoGrid::grow_non_intersecting on the returned grid
Grow ==
    /\ pc = "built"
    /\ pc' = "grown"
    /\ before' = grid
    /\ grid' = grow_non_intersecting(grid, width)
    /\ UNCHANGED <<width, source, sizes, contents, placed, seen, cur,
                   nullable_vec>>
    /\ UNCHANGED respvars
    /\ UNCHANGED sizevars
    /\ UNCHANGED primvars
    /\ UNCHANGED eventvars

Next == AddItem \/ IntoIter \/ VisitNext \/ Grow

Spec == Init /\ [][Next]_vars

\* ------------------------------------------- responsive grid specification
\* the state before ResponsivePhotoGrid::new maps the column counts: the
\* photos are given, no breakpoint is built yet
RInit ==
    /\ \E n \in 0..MaxPhotos : data = [i \in 1..n |-> Photo(i - 1)]
    /\ grids = <<>>
    /\ sized = <<>>
    /\ rpc = "new"
    /\ result = NoResult
    /\ width = 1
    /\ source = [shapes |-> {}, limit |-> 0]
    /\ sizes = <<>>
    /\ contents = <<>>
    /\ placed = <<>>
    /\ pc = "none"
    /\ seen = {}
    /\ cur = 0
    /\ nullable_vec = <<>>
    /\ grid = <<>>
    /\ before = <<>>
    /\ SizingIdle
    /\ PrimIdle
    /\ EventIdle

\* the sizes cb may return for the photos at a column count: any positive
\* extents; a pure cb returns what it returned before for that column count
SizingsAt(size) ==
    IF size \in DOMAIN sized
    THEN {sized[size]}
    ELSE [1..Len(data) -> Shapes(1..(size + 1), 1..MaxRowSpan)]

\* the step sizing the items by the first column count of the list instead
\* of the column count of the breakpoint being built
NewBreakpointSizedByFirst ==
    /\ rpc = "new"
    /\ Len(grids) < MaxBreakpoints
    /\ \E size \in 1..MaxColumns : \E item_sizes \in SizingsAt(size) :
        LET ids == [i \in 1..Len(data) |-> i - 1]
            used == IF Len(grids) = 0 THEN item_sizes
                    ELSE sized[grids[1].width]
            g == new_with_mapper(ids, size, used)
        IN  /\ sized' = [w \in DOMAIN sized \cup {size} |->
                            IF w = size THEN item_sizes ELSE sized[w]]
            /\ grids' = IF g.ok
                        THEN Append(grids, [grid |-> g.grid, width |-> g.width])
                        ELSE grids
            /\ rpc' = IF g.ok THEN "new" ELSE "panic"
    /\ UNCHANGED <<data, result>>
    /\ UNCHANGED gridvars
    /\ UNCHANGED sizevars
    /\ UNCHANGED primvars
    /\ UNCHANGED eventvars

\* one column count of ResponsivePhotoGrid::new: a PhotoGrid over the ids
NewBreakpoint ==
    /\ rpc = "new"
    /\ Len(grids) < MaxBreakpoints
    /\ \E size \in 1..MaxColumns : \E item_sizes \in SizingsAt(size) :
        LET ids == [i \in 1..Len(data) |-> i - 1]
            g == new_with_mapper(ids, size, item_sizes)
        IN  /\ sized' = [w \in DOMAIN sized \cup {size} |->
                            IF w = size THEN item_sizes ELSE sized[w]]
            /\ grids' = IF g.ok
                        THEN Append(grids, [grid |-> g.grid, width |-> g.width])
                        ELSE grids
            /\ rpc' = IF g.ok THEN "new" ELSE "panic"
    /\ UNCHANGED <<data, result>>
    /\ UNCHANGED gridvars
    /\ UNCHANGED sizevars
    /\ UNCHANGED primvars
    /\ UNCHANGED eventvars

\* ResponsivePhotoGrid::new returns
NewReturns ==
    /\ rpc = "new"
    /\ rpc' = "ready"
    /\ UNCHANGED <<data, grids, sized, result>>
    /\ UNCHANGED gridvars
    /\ UNCHANGED sizevars
    /\ UNCHANGED primvars
    /\ UNCHANGED eventvars

\* ResponsivePhotoGrid::grow_to_width
GrowToWidth ==
    /\ rpc = "ready"
    /\ rpc' = "grown"
    /\ grids' = grow_to_width(grids)
    /\ result' = NoResult
    /\ UNCHANGED <<data, sized>>
    /\ UNCHANGED gridvars
    /\ UNCHANGED sizevars
    /\ UNCHANGED primvars
    /\ UNCHANGED eventvars

\* a call of ResponsivePhotoGrid::grids, the iterator run to its end
Grids ==
    /\ rpc \in {"ready", "grown"}
    /\ result' = [op |-> "grids", n |-> 0,
                  entries |-> grids_view(grids, data), len |-> 0]
    /\ UNCHANGED <<data, grids, sized, rpc>>
    /\ UNCHANGED gridvars
    /\ UNCHANGED sizevars
    /\ UNCHANGED primvars
    /\ UNCHANGED eventvars

\* contents_at(n) moving the Placements it returns out of the breakpoints
ContentsAtConsuming ==
    /\ rpc \in {"ready", "grown"}
    /\ \E n \in 0..MaxPhotos :
        /\ result' = [op |-> "contents_at", n |-> n,
                      entries |-> contents_at(grids, data, n, 1), len |-> 0]
        /\ grids' = [k \in DOMAIN grids |->
                        [grid |-> SelectSeq(grids[k].grid,
                                    LAMBDA c : ~(InRange(grids[k].grid, n)
                                                 /\ c = At(grids[k].grid, n))),
                         width |-> grids[k].width]]
    /\ UNCHANGED <<data, sized, rpc>>
    /\ UNCHANGED gridvars
    /\ UNCHANGED sizevars
    /\ UNCHANGED primvars
    /\ UNCHANGED eventvars

\* a call of ResponsivePhotoGrid::contents_at(n)
ContentsAt ==
    /\ rpc \in {"ready", "grown"}
    /\ \E n \in 0..MaxPhotos :
        result' = [op |-> "contents_at", n |-> n,
                   entries |-> contents_at(grids, data, n, 1), len |-> 0]
    /\ UNCHANGED <<data, grids, sized, rpc>>
    /\ UNCHANGED gridvars
    /\ UNCHANGED sizevars
    /\ UNCHANGED primvars
    /\ UNCHANGED eventvars

\* a call of ResponsivePhotoGrid::contents_len
ContentsLen ==
    /\ rpc \in {"ready", "grown"}
    /\ result' = [op |-> "contents_len", n |-> 0, entries |-> <<>>,
                  len |-> contents_len(grids)]
    /\ UNCHANGED <<data, grids, sized, rpc>>
    /\ UNCHANGED gridvars
    /\ UNCHANGED sizevars
    /\ UNCHANGED primvars
    /\ UNCHANGED eventvars

RNext ==
    \/ NewBreakpoint \/ NewReturns \/ GrowToWidth
    \/ Grids \/ ContentsAt \/ ContentsLen

SpecR == RInit /\ [][RNext]_vars

\* ------------------------------------------- grid methods specification
\* the rectangles one insert_at call is given, also without a cell
CallDimensions == Shapes(0..2, 0..2)

\* the item lists one add_all call is given, also with items without a cell
CallItems == UNION {[1..n -> CallDimensions] : n \in 1..2}

\* Grid::new(width)
GInit ==
    /\ width \in 1..MaxWidth
    /\ contents = <<>>
    /\ pc = "grid"
    /\ prev = <<>>
    /\ op = NoOp
    /\ source = [shapes |-> {}, limit |-> 0]
    /\ sizes = <<>>
    /\ placed = <<>>
    /\ seen = {}
    /\ cur = 0
    /\ nullable_vec = <<>>
    /\ grid = <<>>
    /\ before = <<>>
    /\ data = <<>>
    /\ grids = <<>>
    /\ sized = <<>>
    /\ rpc = "none"
    /\ result = NoResult
    /\ SizingIdle
    /\ EventIdle

\* a call of Grid::extend_to(idx)
ExtendTo ==
    /\ pc = "grid"
    /\ \E idx \in 0..(MaxCells - 1) :
        /\ Len(extend_to(width, contents, idx)) <= MaxCells
        /\ contents' = extend_to(width, contents, idx)
        /\ op' = [name |-> "extend_to", idx |-> idx, ok |-> TRUE]
    /\ prev' = contents
    /\ UNCHANGED <<width, source, sizes, placed, pc, seen, cur, nullable_vec,
                   grid, before>>
    /\ UNCHANGED respvars
    /\ UNCHANGED sizevars
    /\ UNCHANGED eventvars

\* a call of Grid::insert_at(index, id, dimension)
InsertAt ==
    /\ pc = "grid"
    /\ \E index \in 0..(MaxCells - 1) : \E id \in 0..MaxId :
        \E dimension \in CallDimensions :
            LET r == insert_at(width, contents, index, id, dimension)
            IN  /\ Len(r.contents) <= MaxCells
                /\ contents' = r.contents
                /\ op' = [name |-> "insert_at", idx |-> index, ok |-> r.ok]
    /\ prev' = contents
    /\ UNCHANGED <<width, source, sizes, placed, pc, seen, cur, nullable_vec,
                   grid, before>>
    /\ UNCHANGED respvars
    /\ UNCHANGED sizevars
    /\ UNCHANGED eventvars

\* a call of Grid::add_all(data)
AddAll ==
    /\ pc = "grid"
    /\ \E items \in CallItems :
        LET r == add_all(width, contents, items, 0)
        IN  /\ Len(r.contents) <= MaxCells
            /\ contents' = r.contents
            /\ op' = [name |-> "add_all", idx |-> Len(items), ok |-> r.ok]
            /\ pc' = IF r.ok THEN "grid" ELSE "panic"
    /\ prev' = contents
    /\ UNCHANGED <<width, source, sizes, placed, seen, cur, nullable_vec,
                   grid, before>>
    /\ UNCHANGED respvars
    /\ UNCHANGED sizevars
    /\ UNCHANGED eventvars

GNext == ExtendTo \/ InsertAt \/ AddAll

SpecG == GInit /\ [][GNext]_vars

\* ------------------------------------------------- sizing specification
\* the characters of the bounded texts
Alphabet == {"0", "1", "2", "3", ":", "+", "-"}

\* the ratios of tests::it_should_round_aspect and ResponsivePhotoGrid::testing
\* as metadata text, and a width of usize::MAX + 1
TestTexts ==
    {<<"3", "6", "0", "0", ":", "2", "4", "0", "1">>,
     <<"8", "5", "6", ":", "1", "2", "8", "0">>,
     <<"1", "8", "4", "4", "6", "7", "4", "4", "0", "7", "3", "7", "0", "9",
       "5", "5", "1", "6", "1", "6", ":", "1">>}

\* the texts from_str is called with
Texts == UNION {[1..n -> Alphabet] : n \in 0..MaxTextLen} \cup TestTexts

\* the "aspect-ratio" metadata text of a photo, nothing parsed yet
SInit ==
    /\ text \in Texts
    /\ parsed = NoParse
    /\ aspect_ratio = <<>>
    /\ rounded = NoRounded
    /\ clamped = NoClamped
    /\ spc = "text"
    /\ width = 1
    /\ source = [shapes |-> {}, limit |-> 0]
    /\ sizes = <<>>
    /\ contents = <<>>
    /\ placed = <<>>
    /\ pc = "none"
    /\ seen = {}
    /\ cur = 0
    /\ nullable_vec = <<>>
    /\ grid = <<>>
    /\ before = <<>>
    /\ data = <<>>
    /\ grids = <<>>
    /\ sized = <<>>
    /\ rpc = "none"
    /\ result = NoResult
    /\ PrimIdle
    /\ EventIdle

\* the text is parsed: metadata.get_mut("aspect-ratio")?.parse()
FromStr ==
    /\ spc = "text"
    /\ parsed' = from_str(text)
    /\ spc' = IF parsed'.ok THEN "parsed" ELSE "error"
    /\ UNCHANGED <<text, aspect_ratio, rounded, clamped>>
    /\ UNCHANGED gridvars
    /\ UNCHANGED respvars
    /\ UNCHANGED primvars
    /\ UNCHANGED eventvars

\* build_photo_grid makes the photo's ratio from the extents of its first
\* resized image: value.first()?.dimension.aspect_ratio(), the extents being
\* the two numbers of the metadata text
DimensionAspectRatio ==
    /\ spc = "parsed"
    /\ LET r == dimension_aspect_ratio(parsed.ratio[1])
       IN  /\ aspect_ratio' = r.ratio
           /\ spc' = IF r.ok THEN "ratio" ELSE "gcd_panic"
    /\ UNCHANGED <<text, parsed, rounded, clamped>>
    /\ UNCHANGED gridvars
    /\ UNCHANGED respvars
    /\ UNCHANGED primvars
    /\ UNCHANGED eventvars

\* the ratio is kept as it was read: ResizedImage { url, aspect_ratio } of
\* list_resized, and the deserialised PhotoLayoutData of testing()
StoredAspectRatio ==
    /\ spc = "parsed"
    /\ aspect_ratio' = parsed.ratio
    /\ spc' = "ratio"
    /\ UNCHANGED <<text, parsed, rounded, clamped>>
    /\ UNCHANGED gridvars
    /\ UNCHANGED respvars
    /\ UNCHANGED primvars
    /\ UNCHANGED eventvars

\* RoundedAspectRatio::<SIZE>::from_aspect_ratio(&x.aspect_ratio)
FromAspectRatio ==
    /\ spc = "ratio"
    /\ \E SIZE \in 1..MaxSize :
        rounded' = rounded_from_aspect_ratio(SIZE, aspect_ratio[1])
    /\ spc' = IF rounded'.ok THEN "rounded" ELSE "panic"
    /\ UNCHANGED <<text, parsed, aspect_ratio, clamped>>
    /\ UNCHANGED gridvars
    /\ UNCHANGED respvars
    /\ UNCHANGED primvars
    /\ UNCHANGED eventvars

\* .clamp_width_to(size) in the sizing rule of build_photo_grid
ClampWidthTo ==
    /\ spc = "rounded"
    /\ \E max_width \in 1..MaxClampWidth :
        clamped' = [max_width |-> max_width,
                    size |-> clamp_width_to(rounded_width(rounded),
                                            rounded_height(rounded),
                                            max_width)]
    /\ spc' = "clamped"
    /\ UNCHANGED <<text, parsed, aspect_ratio, rounded>>
    /\ UNCHANGED gridvars
    /\ UNCHANGED respvars
    /\ UNCHANGED primvars
    /\ UNCHANGED eventvars

SNext ==
    \/ FromStr
    \/ DimensionAspectRatio
    \/ StoredAspectRatio
    \/ FromAspectRatio
    \/ ClampWidthTo

SpecS == SInit /\ [][SNext]_vars

\* ------------------------------------------- the canvas event specification
\* Event values the header sends: drops at two cells and one hue offset
AddDrop(x, y) == [kind |-> "AddDrop", coord |-> [x |-> x, y |-> y], hue |-> 0]
OffsetHue(hue) == [kind |-> "OffsetHue", coord |-> [x |-> 0, y |-> 0], hue |-> hue]
CallEvents == {AddDrop(0, 0), AddDrop(1, 0), OffsetHue(1)}

\* the header after mounting: EventState::default(), the canvas effect has
\* run once and requested the animation frame that builds the canvas
EInit ==
    /\ width = 1
    /\ source = <<>>
    /\ sizes = <<>>
    /\ contents = <<>>
    /\ placed = <<>>
    /\ pc = "events"
    /\ seen = {}
    /\ cur = 0
    /\ nullable_vec = <<>>
    /\ grid = <<>>
    /\ before = <<>>
    /\ data = <<>>
    /\ grids = <<>>
    /\ sized = <<>>
    /\ rpc = "none"
    /\ result = NoResult
    /\ SizingIdle
    /\ PrimIdle
    /\ events = <<>>
    /\ cancel = FALSE
    /\ applied = <<>>
    /\ ret = "none"
    /\ eop = "none"
    /\ pending = <<>>
    /\ cancelled = FALSE
    /\ canvas = "requested"

\* the header is between two of its callbacks: no animation-frame callback
\* is in the middle of its calls
BetweenCallbacks == canvas \in {"requested", "running", "stopped"}

\* EventState::add_event, from pointermove, click, the interval or the slider
AddEvent ==
    /\ pc = "events"
    /\ BetweenCallbacks
    /\ Len(events) < MaxPending
    /\ \E event \in CallEvents : events' = Append(events, event)
    /\ eop' = "add_event"
    /\ pending' = events
    /\ UNCHANGED <<cancel, applied, ret, cancelled, canvas>>
    /\ UNCHANGED gridvars
    /\ UNCHANGED respvars
    /\ UNCHANGED sizevars
    /\ UNCHANGED primvars

\* EventState::cancel, from the resize effect
Cancel ==
    /\ pc = "events"
    /\ BetweenCallbacks
    /\ cancel' = TRUE
    /\ cancelled' = TRUE
    /\ eop' = "cancel"
    /\ pending' = events
    /\ UNCHANGED <<events, applied, ret, canvas>>
    /\ UNCHANGED gridvars
    /\ UNCHANGED respvars
    /\ UNCHANGED sizevars
    /\ UNCHANGED primvars

\* clear_events resetting the cancel state as well
ClearEventsResetting ==
    /\ pc = "events"
    /\ BetweenCallbacks
    /\ events' = <<>>
    /\ cancel' = FALSE
    /\ eop' = "clear_events"
    /\ pending' = events
    /\ UNCHANGED <<applied, ret, cancelled, canvas>>
    /\ UNCHANGED gridvars
    /\ UNCHANGED respvars
    /\ UNCHANGED sizevars
    /\ UNCHANGED primvars

\* EventState::clear_events
ClearEvents ==
    /\ pc = "events"
    /\ BetweenCallbacks
    /\ events' = <<>>
    /\ eop' = "clear_events"
    /\ pending' = events
    /\ UNCHANGED <<cancel, applied, ret, cancelled, canvas>>
    /\ UNCHANGED gridvars
    /\ UNCHANGED respvars
    /\ UNCHANGED sizevars
    /\ UNCHANGED primvars

\* compute_events looking at the events before the cancel flag
ComputeEventsIgnoringCancel ==
    /\ pc = "events"
    /\ canvas \in {"built", "running"}
    /\ Len(applied) + Len(events) <= MaxApplied
    /\ applied' = applied \o events
    /\ ret' = IF cancel THEN "Err" ELSE "Ok"
    /\ canvas' = IF cancel THEN "erred" ELSE "running"
    /\ events' = <<>>
    /\ eop' = "compute_events"
    /\ pending' = events
    /\ UNCHANGED <<cancel, cancelled>>
    /\ UNCHANGED gridvars
    /\ UNCHANGED respvars
    /\ UNCHANGED sizevars
    /\ UNCHANGED primvars

\* CanvasEventManager::compute_events, called by the helper of the
\* animation frame on the canvas it owns: Err at once when cancel is set,
\* otherwise add_drop / shift_hue for each event in order; clear_events
\* runs in both cases. After Ok the helper requests the next frame, after
\* Err it goes on to on_cancel and this canvas gets no further call.
ComputeEvents ==
    /\ pc = "events"
    /\ canvas \in {"built", "running"}
    /\ cancel \/ Len(applied) + Len(events) <= MaxApplied
    /\ IF cancel
          THEN /\ ret' = "Err"
               /\ applied' = applied
               /\ canvas' = "erred"
          ELSE /\ ret' = "Ok"
               /\ applied' = applied \o events
               /\ canvas' = "running"
    /\ events' = <<>>
    /\ eop' = "compute_events"
    /\ pending' = events
    /\ UNCHANGED <<cancel, cancelled>>
    /\ UNCHANGED gridvars
    /\ UNCHANGED respvars
    /\ UNCHANGED sizevars
    /\ UNCHANGED primvars

\* on_cancel, in the callback that got Err: cancel_count is raised, which
\* schedules the canvas effect, and reset_cancel_state is called on the
\* EventState. The source holds no definition of reset_cancel_state, so
\* the flag it leaves is either value.
OnCancel ==
    /\ pc = "events"
    /\ canvas = "erred"
    /\ cancel' \in BOOLEAN
    /\ canvas' = "stopped"
    /\ eop' = "on_cancel"
    /\ pending' = events
    /\ UNCHANGED <<events, applied, ret, cancelled>>
    /\ UNCHANGED gridvars
    /\ UNCHANGED respvars
    /\ UNCHANGED sizevars
    /\ UNCHANGED primvars

\* the canvas effect running again after cancel_count changed: the
\* EventState is replaced by EventState::default() and an animation frame
\* is requested for the new canvas
CanvasEffect ==
    /\ pc = "events"
    /\ canvas = "stopped"
    /\ events' = <<>>
    /\ cancel' = FALSE
    /\ canvas' = "requested"
    /\ eop' = "effect"
    /\ pending' = events
    /\ UNCHANGED <<applied, ret, cancelled>>
    /\ UNCHANGED gridvars
    /\ UNCHANGED respvars
    /\ UNCHANGED sizevars
    /\ UNCHANGED primvars

\* LiquidGridImageCanvas::new in the requested frame: a new liquid grid
\* and palette, and clear_events() on the EventState; the helper's first
\* compute_events follows in the same callback
NewCanvas ==
    /\ pc = "events"
    /\ canvas = "requested"
    /\ applied' = <<>>
    /\ events' = <<>>
    /\ ret' = "none"
    /\ canvas' = "built"
    /\ eop' = "new_canvas"
    /\ pending' = events
    /\ UNCHANGED <<cancel, cancelled>>
    /\ UNCHANGED gridvars
    /\ UNCHANGED respvars
    /\ UNCHANGED sizevars
    /\ UNCHANGED primvars

ENext ==
    \/ AddEvent
    \/ Cancel
    \/ ClearEvents
    \/ ComputeEvents
    \/ OnCancel
    \/ CanvasEffect
    \/ NewCanvas

SpecE == EInit /\ [][ENext]_vars

\* ------------------------------------------------------- claim vocabulary
\* the cells a Placement covers
Cells(c) ==
    {<<x, y>> : x \in c.origin.x..(c.origin.x + c.size.width - 1),
                y \in c.origin.y..(c.origin.y + c.size.height - 1)}

PairwiseDisjoint(g) ==
    \A i \in DOMAIN g : \A j \in DOMAIN g :
        i # j => Cells(g[i]) \cap Cells(g[j]) = {}

WithinRightEdge(g) ==
    \A i \in DOMAIN g : g[i].origin.x + g[i].size.width <= width

\* every item consumed so far is at most as wide as the grid
AllItemsFit == \A i \in DOMAIN sizes : sizes[i].width <= width
SomeItemTooWide == \E i \in DOMAIN sizes : sizes[i].width > width

\* the Placement the packer made for item i (1-based position in sizes)
PackedPlacement(i) ==
    [data |-> i - 1, size |-> sizes[i],
     origin |-> [x |-> placed[i] % width, y |-> placed[i] \div width]]

\* the rows a Placement spans
Rows(c) == c.origin.y..(c.origin.y + c.size.height - 1)

\* no other Placement further right shares a row with Placement i
NothingToTheRight(g, i) ==
    ~\E j \in DOMAIN g :
        /\ j # i
        /\ g[j].origin.x > g[i].origin.x
        /\ Rows(g[j]) \cap Rows(g[i]) # {}

\* ------------------------------------------------------------------ claims
\* C1: every identity 0..N-1 is the payload of exactly one Placement of a
\* grid returned by new_with_mapper, for any items with positive extents.
C1_EveryIdentityExactlyOnce ==
    pc = "built" =>
        \A id \in 0..(Len(sizes) - 1) :
            Cardinality({i \in DOMAIN grid : grid[i].data = id}) = 1

\* C2: iterating a grid packed from items no wider than the grid yields
\* exactly one Placement per item, with the origin the packer chose, the
\* item's own span and the item's ordinal.
C2_IterationReconstructsPacking ==
    (pc = "collect" /\ cur = 0 /\ seen = {} /\ AllItemsFit) =>
        LET out == into_iter_all(width, contents)
        IN  /\ Len(out) = Len(sizes)
            /\ \A i \in DOMAIN sizes :
                \E k \in DOMAIN out : out[k] = PackedPlacement(i)

\* C3: the Placements of a grid returned by new_with_mapper cover pairwise
\* disjoint sets of cells.
C3_PlacementsDisjoint == pc = "built" => PairwiseDisjoint(grid)

C3_Witness ==
    /\ pc = "built"
    /\ Len(grid) >= 3
    /\ \E i \in DOMAIN grid : grid[i].size.height > 1
    /\ \E i \in DOMAIN grid : grid[i].size.width > 1

\* C4: no Placement crosses the right edge, neither in the grid returned by
\* new_with_mapper nor after grow_non_intersecting, also when items are
\* wider than the grid.
C4_WithinRightEdge == pc \in {"built", "grown"} => WithinRightEdge(grid)

C4_Witness ==
    /\ pc = "grown"
    /\ SomeItemTooWide
    /\ Len(grid) >= 2
    /\ grid # before

\* C5: add_all puts each item at the smallest allocated empty index whose
\* column leaves room for the item's width and whose rectangle is empty
\* (cells past the allocated rows count as empty), else at the index equal
\* to the number of cells; [1x2, 1x2, 2x1, 2x1] at width 4 gives
\* [0,1,2,2, 0,1,3,3].
C5_FirstFitOrAppend ==
    [][(pc = "add_all" /\ pc' = "add_all" /\ Len(sizes') = Len(sizes) + 1) =>
        LET el == sizes'[Len(sizes')]
            at == placed'[Len(placed')]
            free(j) == j >= Len(contents) \/ contents[j + 1] = NoneVal
            candidates ==
                {i \in 0..(Len(contents) - 1) :
                    /\ contents[i + 1] = NoneVal
                    /\ (i % width) + el.width <= width
                    /\ \A dx \in 0..(el.width - 1) :
                        \A dy \in 0..(el.height - 1) :
                            free(i + dy * width + dx)}
        IN  /\ at = IF candidates # {} THEN Min(candidates) ELSE Len(contents)
            /\ contents'[at + 1] = Len(sizes)
            /\ (/\ width = 4
                /\ sizes' = <<Dim(1, 2), Dim(1, 2), Dim(2, 1), Dim(2, 1)>>)
               => contents' = <<0, 1, 2, 2, 0, 1, 3, 3>>
    ]_vars

C5_Witness ==
    /\ width = 4
    /\ sizes = <<Dim(1, 2), Dim(1, 2), Dim(2, 1), Dim(2, 1)>>
    /\ placed = <<0, 1, 2, 6>>
    /\ contents = <<0, 1, 2, 2, 0, 1, 3, 3>>

\* every breakpoint was sized with items no wider than its column count
BreakpointItemsFit ==
    \A k \in DOMAIN grids : \A i \in DOMAIN data :
        sized[grids[k].width][i].width <= grids[k].width

\* C6: contents_at(n) yields one entry per breakpoint, every entry being
\* the item in slot n of the backing array with that item's Placement
\* (stated for breakpoints whose items fit, where every item is placed).
C6_ContentsAtSameItem ==
    (result.op = "contents_at" /\ result.n < Len(data) /\ BreakpointItemsFit)
    =>
        /\ Len(result.entries) = Len(grids)
        /\ \A k \in DOMAIN result.entries :
            /\ result.entries[k].item = data[result.n + 1]
            /\ result.entries[k].placement.data = result.n
            /\ \E i \in DOMAIN grids[k].grid :
                grids[k].grid[i] = result.entries[k].placement

\* C7: every breakpoint of a ResponsivePhotoGrid built from N items has
\* exactly N Placements whose payloads are exactly 0..N-1, so contents_len
\* is the length of every breakpoint.
C7_EveryBreakpointCoversAllItems ==
    rpc = "ready" =>
        \A k \in DOMAIN grids :
            /\ Len(grids[k].grid) = Len(data)
            /\ {grids[k].grid[i].data : i \in DOMAIN grids[k].grid}
                = 0..(Len(data) - 1)
            /\ contents_len(grids) = Len(grids[k].grid)

\* C8: grow_non_intersecting never decreases a width and changes nothing
\* else: origins, heights, payloads, length and order stay.
C8_GrowOnlyWidens ==
    pc = "grown" =>
        /\ Len(grid) = Len(before)
        /\ \A i \in DOMAIN before :
            /\ grid[i].origin = before[i].origin
            /\ grid[i].data = before[i].data
            /\ grid[i].size.height = before[i].size.height
            /\ grid[i].size.width >= before[i].size.width

C8_Witness ==
    /\ pc = "grown"
    /\ \E i \in DOMAIN before : grid[i].size.width > before[i].size.width
    /\ \E i \in DOMAIN before :
        /\ i \in to_grow(before)
        /\ before[i].origin.x + before[i].size.width = width

\* C9: disjoint Placements within the right edge stay disjoint under
\* grow_non_intersecting.
C9_GrowKeepsDisjoint ==
    (pc = "grown" /\ PairwiseDisjoint(before) /\ WithinRightEdge(before))
        => PairwiseDisjoint(grid)

C9_Witness ==
    /\ pc = "grown"
    /\ PairwiseDisjoint(before)
    /\ WithinRightEdge(before)
    /\ \E i \in DOMAIN before : grid[i].size.width > before[i].size.width
    /\ \E i \in DOMAIN before : i \notin to_grow(before)

\* C10: a Placement gets width grid_width - origin.x exactly when no other
\* Placement with a greater origin.x shares a row with it; the others keep
\* their width; rows 5..10 and 10..12 do not overlap, 5..10 and 9..12 do.
C10_GrowsExactlyTheUnblocked ==
    /\ ~does_intersect([start |-> 5, end |-> 10], [start |-> 10, end |-> 12])
    /\ does_intersect([start |-> 5, end |-> 10], [start |-> 9, end |-> 12])
    /\ pc = "grown" =>
        \A i \in DOMAIN before :
            /\ NothingToTheRight(before, i)
                <=> grid[i].size.width = width - before[i].origin.x
            /\ ~NothingToTheRight(before, i)
                => grid[i].size.width = before[i].size.width

C10_Witness ==
    /\ pc = "grown"
    /\ \E i \in DOMAIN before :
        /\ NothingToTheRight(before, i)
        /\ grid[i].size.width > before[i].size.width
        /\ \E j \in DOMAIN before :
            /\ before[j].origin.x > before[i].origin.x
            /\ before[j].origin.y = before[i].origin.y + before[i].size.height
    /\ \E i \in DOMAIN before : ~NothingToTheRight(before, i)

\* the Placements of g that reach into row y
InRow(g, y) == {i \in DOMAIN g : y \in Rows(g[i])}

\* the rows some Placement of g reaches into
UsedRows(g) == UNION {Rows(g[i]) : i \in DOMAIN g}

\* the Placement of row y with the greatest origin.x ends at the right edge
RowClosed(g, W, y) ==
    \A i \in InRow(g, y) :
        (\A j \in InRow(g, y) : g[j].origin.x <= g[i].origin.x)
            => g[i].origin.x + g[i].size.width = W

\* C11: after grow_non_intersecting (the step grow_to_width applies to every
\* breakpoint grid), in every row that a Placement reaches into, the
\* Placement with the greatest origin.x ends at the right edge of the grid.
C11_NoTrailingEmptyCells ==
    (pc = "grown" /\ AllItemsFit) =>
        \A y \in UsedRows(grid) : RowClosed(grid, width, y)

\* a Size without a cell
ZeroExtent(d) == d.width = 0 \/ d.height = 0

\* C13: add_all aborts when it reaches an item whose width or height is 0,
\* whether or not the grid has an empty cell at that moment: the item is the
\* last one consumed, the run is aborted, and no cell carries its ordinal.
C13_ZeroExtentAborts ==
    \A i \in DOMAIN sizes :
        ZeroExtent(sizes[i]) =>
            /\ pc = "panic"
            /\ i = Len(sizes)
            /\ \A k \in DOMAIN contents : contents[k] # i - 1
            /\ ~add_all(width, <<>>, sizes, 0).ok

\* a zero-extent item met while every cell of the grid was occupied
C13_Witness ==
    /\ pc = "panic"
    /\ Len(sizes) >= 3
    /\ ZeroExtent(sizes[Len(sizes)])
    /\ placed[Len(placed)] > 0
    /\ placed[Len(placed)] + width = Len(contents)
    /\ \A idx \in 0..(Len(contents) - 1) :
        At(contents, idx) = NoneVal <=> idx >= placed[Len(placed)]
    /\ \E i \in DOMAIN sizes : sizes[i].height = 2

\* the ordinals that are the payload of a Placement of g
Payloads(g) == {g[k].data : k \in DOMAIN g}

\* C14: new_with_mapper moves each item into at most one Placement: a step
\* of the collect in which the reconstructor yields an ordinal that already
\* is the payload of a Placement aborts construction, and the list being
\* collected never holds an ordinal twice.
C14_ItemTakenAtMostOnce ==
    [][pc = "collect" =>
        LET r == next(width, contents, seen, cur)
        IN  /\ (r.yield # <<>> /\ r.yield[1].data \in Payloads(grid))
                => (pc' = "panic" /\ grid' = grid)
            /\ Cardinality(Payloads(grid')) = Len(grid')]_vars

\* the collect was aborted by an ordinal yielded a second time, the items
\* all being narrower than the grid
C14_Witness ==
    /\ pc = "panic"
    /\ AllItemsFit
    /\ Len(grid) >= 2
    /\ \E i \in DOMAIN nullable_vec : nullable_vec[i] = NoneVal
    /\ Cardinality(Payloads(grid)) = Len(grid)

\* the PhotoGrid of new_with_mapper over the identities 0..N-1 at one column
\* count, the sizing rule applied to (item, that column count)
BreakpointAlone(size) ==
    new_with_mapper([i \in 1..Len(data) |-> i - 1], size, sized[size])

\* C15: every breakpoint grid ResponsivePhotoGrid::new builds equals
\* new_with_mapper over the identities at that breakpoint's column count with
\* the sizing rule of that column count, whatever other column counts are in
\* the list and wherever the breakpoint stands in it.
C15_BreakpointDependsOnOwnColumns ==
    rpc \in {"new", "ready"} =>
        \A k \in DOMAIN grids :
            /\ BreakpointAlone(grids[k].width).ok
            /\ grids[k].grid = BreakpointAlone(grids[k].width).grid
            /\ grids[k].width = BreakpointAlone(grids[k].width).width

C15_Witness ==
    /\ rpc = "ready"
    /\ Len(data) >= 2
    /\ Len(grids) = 2
    /\ grids[1].width > grids[2].width
    /\ sized[grids[1].width] # sized[grids[2].width]
    /\ grids[1].grid # grids[2].grid

\* C16: after construction the read operations grids(), contents_at(n) and
\* contents_len() leave every breakpoint's Placement list and the backing
\* array as they were, in whatever number and order they are called.
C16_ReadsChangeNothing ==
    [][(rpc \in {"ready", "grown"}
            /\ result'.op \in {"grids", "contents_at", "contents_len"})
        => (grids' = grids /\ data' = data /\ rpc' = rpc)]_vars

\* grids() has run on a grown grid of two breakpoints that hold Placements
C16_Witness ==
    /\ rpc = "grown"
    /\ result.op = "grids"
    /\ Len(result.entries) = 2
    /\ \A k \in DOMAIN grids :
        /\ Len(grids[k].grid) >= 2
        /\ Len(result.entries[k].grid) = Len(grids[k].grid)
        /\ \A i \in DOMAIN grids[k].grid :
            result.entries[k].grid[i].data = Photo(grids[k].grid[i].data)

\* the ratio a RoundedAspectRatio was made from, its edges as the claim
\* names them
ShortEdge(ratio) == Min({ratio.width, ratio.height})
LongEdge(ratio) == Max({ratio.width, ratio.height})

\* C17: RoundedAspectRatio<SIZE>::from_aspect_ratio computes divisor =
\* min div SIZE and long_edge = max div divisor rounded up on any nonzero
\* remainder (the least multiple count of divisor reaching max); width() and
\* height() return SIZE on the short edge and long_edge on the long edge;
\* (3600,2401) with SIZE 2 is Landscape with long_edge 3 and (856,1280) with
\* SIZE 2 has width 2 and height 3.
C17_RoundsUpOnAnyRemainder ==
    (spc \in {"rounded", "clamped"}) =>
        LET ratio == aspect_ratio[1]
            divisor == ShortEdge(ratio) \div rounded.SIZE
        IN  /\ divisor > 0
            /\ rounded.long_edge * divisor >= LongEdge(ratio)
            /\ (rounded.long_edge - 1) * divisor < LongEdge(ratio)
            /\ rounded.long_edge =
                 (LongEdge(ratio) \div divisor)
                    + (IF LongEdge(ratio) % divisor # 0 THEN 1 ELSE 0)
            /\ IF ratio.width > ratio.height
               THEN /\ rounded_width(rounded) = rounded.long_edge
                    /\ rounded_height(rounded) = rounded.SIZE
               ELSE /\ rounded_width(rounded) = rounded.SIZE
                    /\ rounded_height(rounded) = rounded.long_edge
            /\ (ratio = [width |-> 3600, height |-> 2401] /\ rounded.SIZE = 2)
                => (rounded.orientation = "Landscape"
                    /\ rounded.long_edge = 3)
            /\ (ratio = [width |-> 856, height |-> 1280] /\ rounded.SIZE = 2)
                => (rounded_width(rounded) = 2 /\ rounded_height(rounded) = 3)

\* the ratio of tests::it_should_round_aspect rounded with SIZE 2: the
\* remainder 424 of 1280 by the divisor 428 rounds the long edge up to 3
C17_Witness ==
    /\ spc = "rounded"
    /\ aspect_ratio = <<[width |-> 856, height |-> 1280]>>
    /\ rounded.SIZE = 2
    /\ rounded.long_edge = 3
    /\ rounded.orientation = "Portrait"

\* C18: clamp_width_to(max_width) with max_width >= 1 on a size with positive
\* extents returns the size unchanged when its width is at most max_width;
\* otherwise the width is max_width and the height is the height scaled by
\* max_width / width but at least 1; the result always has
\* 1 <= width <= max_width and height >= 1.
C18_ClampKeepsExtentsPositive ==
    spc = "clamped" =>
        LET w == rounded_width(rounded)
            h == rounded_height(rounded)
            m == clamped.max_width
            out == clamped.size
        IN  /\ w >= 1 /\ h >= 1 /\ m >= 1
            /\ w <= m => out = Dim(w, h)
            /\ w > m =>
                /\ out.width = m
                /\ out.height <= h
                /\ \/ out.height = 1 /\ h * m < 2 * w
                   \/ /\ out.height * w <= h * m
                      /\ h * m < (out.height + 1) * w
            /\ 1 <= out.width /\ out.width <= m
            /\ out.height >= 1

\* a wide size clamped so far that the scaled height would be 0
C18_Witness ==
    /\ spc = "clamped"
    /\ rounded_width(rounded) > clamped.max_width
    /\ clamped.max_width > 1
    /\ rounded_height(rounded) * clamped.max_width < rounded_width(rounded)
    /\ clamped.size = Dim(clamped.max_width, 1)

\* the number of colons of a text
Colons(s) == Cardinality({i \in DOMAIN s : s[i] = ":"})

\* the text before the first colon and the text after it
Before(s) == SubSeq(s, 1, Min({i \in DOMAIN s : s[i] = ":"}) - 1)
After(s) == SubSeq(s, Min({i \in DOMAIN s : s[i] = ":"}) + 1, Len(s))

\* the digits of a text with an optional leading plus sign taken off
Unsigned(t) == IF Len(t) > 0 /\ t[1] = "+" THEN Tail(t) ELSE t

\* a text that writes a non-negative integer a usize can hold
IsNatural(t) ==
    /\ Len(Unsigned(t)) > 0
    /\ \A i \in DOMAIN Unsigned(t) :
        Unsigned(t)[i] \in {"0", "1", "2", "3", "4", "5", "6", "7", "8", "9"}
    /\ ~above_usize_max(significant(Unsigned(t)))

\* the decimal digits of a number, most significant first, none for 0
RECURSIVE Decimal(_)
Decimal(n) == IF n = 0 THEN <<>> ELSE Append(Decimal(n \div 10), n % 10)

\* C19: parsing an AspectRatio from text fails with Separator when the text
\* has no colon or more than one (a duplicated colon, or content after a
\* second one), fails with ParseInt when it has one colon and a side does
\* not write a non-negative integer, and otherwise succeeds with the two
\* integers as width and height; a failure carries no AspectRatio and the
\* sizing stops.
C19_ParseFailsTyped ==
    spc \notin {"none", "text"} =>
        /\ Colons(text) # 1 =>
            (~parsed.ok /\ parsed.err = "Separator")
        /\ (Colons(text) = 1
                /\ ~(IsNatural(Before(text)) /\ IsNatural(After(text)))) =>
            (~parsed.ok /\ parsed.err = "ParseInt")
        /\ (Colons(text) = 1
                /\ IsNatural(Before(text)) /\ IsNatural(After(text))) =>
            /\ parsed.ok
            /\ Len(parsed.ratio) = 1
            /\ Decimal(parsed.ratio[1].width)
                 = significant(Unsigned(Before(text)))
            /\ Decimal(parsed.ratio[1].height)
                 = significant(Unsigned(After(text)))
        /\ ~parsed.ok => (parsed.ratio = <<>> /\ spc = "error")

\* a text whose first two pieces are integers, with more after a second colon
C19_Witness ==
    /\ spc = "error"
    /\ parsed.err = "Separator"
    /\ Colons(text) = 2
    /\ IsNatural(Before(text))
    /\ IsNatural(Before(After(text)))

\* the stage of a new_with_mapper call, counting down
Stage ==
    CASE pc = "add_all" -> 3
      [] pc = "collect" -> 2
      [] pc = "built" -> 1
      [] OTHER -> 0

\* what is left of the stage: items not yet consumed, cells not yet passed
Remaining ==
    CASE pc = "add_all" -> source.limit - Len(sizes)
      [] pc = "collect" -> Len(contents) - cur
      [] OTHER -> 0

\* C20: construction terminates for every finite item list and width: every
\* step lowers a natural-number measure (the stage, then what remains of
\* it), so no run is infinite; add_all places one item per step of its loop
\* and ends with the list; the cursor of the reconstructor strictly
\* increases on every step that yields a Placement, and the step that yields
\* none has the cursor past the last cell and ends the iteration.
C20_ConstructionTerminates ==
    [][/\ Remaining >= 0 /\ Remaining' >= 0
       /\ \/ Stage' < Stage
          \/ Stage' = Stage /\ Remaining' < Remaining
       /\ pc = "add_all" =>
            \/ /\ Len(sizes') = Len(sizes) + 1
               /\ Len(placed') = Len(sizes')
            \/ pc' = "collect" /\ sizes' = sizes
       /\ pc = "collect" =>
            /\ grid' # grid => cur' > cur
            /\ pc' = "panic" => cur' > cur
            /\ grid' = grid /\ pc' # "panic" =>
                (pc' = "built" /\ cur' >= Len(contents))]_vars

\* a run that ended after the cursor had skipped empty and already-seen
\* cells
C20_Witness ==
    /\ pc = "built"
    /\ Len(sizes) >= 4
    /\ cur >= Len(contents)
    /\ available(contents) # {}
    /\ \E i \in DOMAIN grid : grid[i].size.height > 1
    /\ Len(grid) = Len(sizes)

\* every item consumed so far has a cell
AllExtentsPositive == \A i \in DOMAIN sizes : ~ZeroExtent(sizes[i])

\* the cells of contents that hold the ordinal id
CellsHolding(id) == {idx \in 0..(Len(contents) - 1) : At(contents, idx) = id}

\* the indices of the rectangle of item i (1-based position in sizes) at the
\* cell chosen for it
RectangleOf(i) ==
    LET c == to_dimension(width, placed[i])
    IN  {to_index(width, [x |-> x, y |-> y]) :
            x \in c.x..(c.x + sizes[i].width - 1),
            y \in c.y..(c.y + sizes[i].height - 1)}

\* C21: after add_all over items with positive extents the cells holding an
\* item's ordinal are exactly the width x height rectangle whose top-left is
\* the cell chosen for the item, all within the columns of the grid, for
\* first fit and for the append fallback alike.
C21_OrdinalCellsAreTheRectangle ==
    (pc \in {"add_all", "collect", "built", "grown"} /\ AllExtentsPositive) =>
        \A i \in DOMAIN sizes :
            /\ to_dimension(width, placed[i]).x + sizes[i].width <= width
            /\ CellsHolding(i - 1) = RectangleOf(i)

\* C22: a grid made by Grid::new(width) with width >= 1 has, after any
\* sequence of add_all, insert_at and extend_to calls, a number of cells that
\* is a multiple of width, and no call lowers the number of cells.
C22_WholeRowsNeverFewer ==
    (pc = "grid" \/ (pc = "panic" /\ op.name = "add_all")) =>
        /\ width >= 1
        /\ Len(contents) % width = 0
        /\ Len(contents) >= Len(prev)

\* an insert_at into the second row of a grid that had one row
C22_Witness ==
    /\ pc = "grid"
    /\ op.name = "insert_at"
    /\ op.ok
    /\ width >= 2
    /\ Len(prev) = width
    /\ Len(contents) = 2 * width
    /\ \E idx \in 0..(width - 1) : At(prev, idx) # NoneVal

\* C23: extend_to(idx) makes the number of cells the greater of the previous
\* number and (idx div width + 1) * width, fills every added cell with the
\* empty value and leaves the existing cells as they were; for an index that
\* was covered already, and when called again with the same index, it
\* changes nothing.
C23_ExtendToRowEnd ==
    (pc = "grid" /\ op.name = "extend_to") =>
        /\ Len(contents) =
             Max({Len(prev), ((op.idx \div width) + 1) * width})
        /\ \A i \in DOMAIN contents :
             contents[i] = IF i <= Len(prev) THEN prev[i] ELSE NoneVal
        /\ op.idx < Len(prev) => contents = prev
        /\ extend_to(width, contents, op.idx) = contents

\* extend_to added a row below a row that holds an item
C23_Witness ==
    /\ pc = "grid"
    /\ op.name = "extend_to"
    /\ width >= 2
    /\ Len(prev) = width
    /\ Len(contents) = 2 * width
    /\ op.idx > width
    /\ \E idx \in 0..(width - 1) : At(contents, idx) # NoneVal

\* C24: EventState::clear_events empties the pending event list and leaves
\* the cancel flag as it was: a cancel requested before clear_events is
\* still set after it.
\* (The steps are the calls of clear_events: on its own, at the end of
\* compute_events and in the construction of a canvas.)
C24_ClearEventsKeepsCancel ==
    [][eop' \in {"clear_events", "new_canvas", "compute_events"} =>
          /\ events' = <<>>
          /\ cancel' = cancel]_vars

\* clear_events dropped pending events of a cancelled EventState
C24_Witness ==
    /\ eop = "clear_events"
    /\ pending # <<>>
    /\ events = <<>>
    /\ cancel

\* C30 as stated: once cancel() has been called, every later compute_events
\* returns Err and applies none of the pending events; while cancel is not
\* set compute_events applies every pending event in insertion order and
\* returns Ok.
C30_CancelIsForever ==
    [][/\ (cancelled /\ eop' = "compute_events") =>
             /\ ret' = "Err"
             /\ applied' = applied
       /\ (~cancel /\ eop' = "compute_events") =>
             /\ ret' = "Ok"
             /\ applied' = applied \o events]_vars

\* C30, amended: once cancel() has been called, and until the header's
\* on_cancel and canvas effect reset the EventState, the flag stays set and
\* every compute_events returns Err and applies none of the pending events,
\* whatever add_event and clear_events calls come in between; while cancel
\* is not set compute_events applies every pending event in insertion
\* order and returns Ok.
C30_CancelledNeverApplies ==
    [][/\ eop' = "cancel" => cancel'
       /\ (cancel /\ eop' \notin {"on_cancel", "effect"}) => cancel'
       /\ (cancel /\ eop' = "compute_events") =>
             /\ ret' = "Err"
             /\ applied' = applied
       /\ (~cancel /\ eop' = "compute_events") =>
             /\ ret' = "Ok"
             /\ applied' = applied \o events]_vars

\* a cancelled compute_events met pending events after an earlier one
\* had applied two events in order
C30_Witness ==
    /\ eop = "compute_events"
    /\ cancel
    /\ ret = "Err"
    /\ pending # <<>>
    /\ Len(applied) = 2
    /\ applied[1] # applied[2]
    /\ \A i \in DOMAIN pending : \A j \in DOMAIN applied : pending[i] # applied[j]

\* C25: new_with_mapper does not abort for an item list in which every item
\* has width >= 1, height >= 1 and width <= grid width: neither the
\* insertion abort nor the double-consumption abort is reached.
C25_NoAbortWhenItemsFit ==
    (width >= 1 /\ AllExtentsPositive /\ AllItemsFit) => pc # "panic"

\* C26: during add_all, placing an item never changes a cell that holds an
\* earlier item's ordinal: after the step every cell occupied before holds
\* the same ordinal, and the cells written in the step were empty or newly
\* allocated immediately before it.
C26_PlacingKeepsEarlierCells ==
    [][(pc = "add_all" /\ Len(sizes') = Len(sizes) + 1) =>
          /\ Len(contents') >= Len(contents)
          /\ \A idx \in 0..(Len(contents) - 1) :
                At(contents, idx) # NoneVal =>
                    At(contents', idx) = At(contents, idx)
          /\ \A idx \in 0..(Len(contents') - 1) :
                At(contents', idx) = Len(sizes) =>
                    \/ idx >= Len(contents)
                    \/ At(contents, idx) = NoneVal]_vars

\* the third item went into a hole before the second item, over two rows
C26_Witness ==
    /\ pc = "add_all"
    /\ Len(sizes) = 3
    /\ placed[3] < placed[2]
    /\ sizes[3].height = 2
    /\ Cardinality(CellsHolding(2)) = 2
    /\ CellsHolding(0) # {}
    /\ CellsHolding(1) # {}

\* row-major index of the origin of a Placement
RowMajor(c) == c.origin.y * width + c.origin.x

\* C27: the Placements yielded by the reconstructor, and so the Placement
\* list of a PhotoGrid, are ordered by strictly increasing row-major index
\* of their origin (origin.y * width + origin.x).
C27_OriginsAscend ==
    \A i \in DOMAIN grid : \A j \in DOMAIN grid :
        i < j => RowMajor(grid[i]) < RowMajor(grid[j])

\* a finished list whose order differs from the order of the items, from a
\* grid with an empty cell
C27_Witness ==
    /\ pc = "built"
    /\ Len(grid) >= 3
    /\ \E i \in DOMAIN grid : \E j \in DOMAIN grid :
          i < j /\ grid[i].data > grid[j].data
    /\ \E idx \in 0..(Len(contents) - 1) : At(contents, idx) = NoneVal

\* C28: grow_non_intersecting (and so grow_to_width) is idempotent: applied
\* to the result of a first application, on a PhotoGrid whose Placements
\* have origin.x < grid width, it gives the same Placement list.
C28_GrowIsIdempotent ==
    (pc = "grown" /\ \A i \in DOMAIN grid : grid[i].origin.x < width) =>
        grow_non_intersecting(grid, width) = grid

\* the first application widened a Placement and left a blocked one alone
C28_Witness ==
    /\ pc = "grown"
    /\ \A i \in DOMAIN grid : grid[i].origin.x < width
    /\ \E i \in DOMAIN grid : grid[i].size.width > before[i].size.width
    /\ \E i \in DOMAIN grid :
          /\ i \notin to_grow(before)
          /\ grid[i].origin.x + grid[i].size.width < width

\* C29: RoundedAspectRatio<SIZE>::from_aspect_ratio (SIZE >= 1) is defined,
\* without a division by zero, exactly when the shorter edge of the ratio is
\* at least SIZE; then the extent along the shorter edge is SIZE and
\* long_edge >= SIZE, so width() and height() are both positive.
C29_DefinedIffShortEdgeReachesSize ==
    (spc \in {"rounded", "clamped", "panic"}) =>
        LET ratio == aspect_ratio[1]
        IN  /\ rounded.SIZE >= 1
            /\ rounded.ok <=> ShortEdge(ratio) >= rounded.SIZE
            /\ spc = "panic" <=> ~rounded.ok
            /\ rounded.ok =>
                /\ Min({rounded_width(rounded), rounded_height(rounded)})
                     = rounded.SIZE
                /\ rounded.long_edge >= rounded.SIZE
                /\ IF ratio.width > ratio.height
                   THEN rounded_height(rounded) = rounded.SIZE
                   ELSE rounded_width(rounded) = rounded.SIZE
                /\ rounded_width(rounded) > 0
                /\ rounded_height(rounded) > 0

\* a ratio with a nonzero short edge one below SIZE: the divisor is 0
C29_Witness ==
    /\ spc = "panic"
    /\ ~rounded.ok
    /\ rounded.SIZE = 2
    /\ ShortEdge(aspect_ratio[1]) = 1
    /\ LongEdge(aspect_ratio[1]) > 1

====
